---- MODULE Spec2Model ----
(***************************************************************************)
(* Autoscaler v2 control core: the Reconciler (instance_manager/           *)
(* reconciler.py) and the ResourceDemandScheduler (scheduler.py).          *)
(*                                                                         *)
(* Python's None is the string "None" where the other values are strings,  *)
(* and the empty sequence <<>> where the other values are records (an      *)
(* Optional[record] is a sequence of length 0 or 1).                       *)
(***************************************************************************)
EXTENDS Integers, Sequences, FiniteSets, TLC

VARIABLES
    \* ---- Reconciler ----
    im,           \* the InstanceManager's instances: a sequence of Instance records
    imBefore,     \* the instances as they were when the last sync_from was entered
    syncIn,       \* the external snapshot passed to the last sync_from (<<>>: none yet)
    syncUpdates,  \* the status updates the handlers issued in the last sync_from
    syncCalls,    \* the handlers the last sync_from invoked, in invocation order
    lastOp,       \* "none", "sync_from" or "step_next"
    twoSame,      \* the last two operations were sync_from calls with one snapshot
    stepBefore,   \* the instances as they were when the last step_next was entered
    stepUpdates,  \* the status updates the last step_next issued
    \* ---- ResourceDemandScheduler ----
    request,      \* the SchedulingRequest object the callers pass to schedule
    ctx,          \* self._ctx of the scheduler object (<<>>: not yet set)
    heap,         \* the SchedulingNode objects self._ctx._nodes refers to
    pc,           \* each caller's position in schedule
    local,        \* each caller's local variables in schedule
    reply,        \* each caller's SchedulingReply (<<>>: none yet)
    clock,        \* the last value time.time_ns() returned
    tried,        \* the last SchedulingNode.try_schedule call (<<>>: none yet)
    \* ---- The callers of ScheduleContext's accessors, and the provider adapter ----
    got,          \* the value the last accessor call returned (<<>>: none yet)
    provider      \* the NodeProviderAdapter and its base provider (<<>>: not in use)

recVars == <<im, imBefore, syncIn, syncUpdates, syncCalls, lastOp, twoSame,
            stepBefore, stepUpdates>>
schedVars == <<request, ctx, heap, pc, local, reply, clock, tried>>
outerVars == <<got, provider>>
vars == <<im, imBefore, syncIn, syncUpdates, syncCalls, lastOp, twoSame,
          stepBefore, stepUpdates,
          request, ctx, heap, pc, local, reply, clock, tried,
          got, provider>>

None == "None"

\* The elements of a sequence.
Range(seq) == {seq[k] : k \in DOMAIN seq}

\* ------------------------------------------------------------------------
\* Bounds of the model
\* ------------------------------------------------------------------------

\* Instances held by the instance manager.
MaxStoreInstances == 2

\* Instances in a SchedulingRequest.
MaxInstances == 2

\* Resource requests in a list given to try_schedule.
MaxRequests == 3

\* The largest number of concurrent launches a provider adapter is set up with.
MaxConcurrentLaunches == 2

\* The largest min_worker_nodes and max_worker_nodes of a node type config.
MaxWorkers == 2

\* time.time_ns() returns 0, NsPerTsUnit, ..., MaxClock * NsPerTsUnit.
MaxClock == 1

\* ------------------------------------------------------------------------
\* Reconciler: data
\* ------------------------------------------------------------------------

\* The instance statuses the reconciler's transitions name.
InstanceStatuses ==
    {"QUEUED", "REQUESTED", "ALLOCATED", "ALLOCATION_FAILED", "RAY_INSTALLING",
     "RAY_RUNNING", "RAY_INSTALL_FAILED", "RAY_STOPPING", "RAY_STOPPED",
     "TERMINATING", "TERMINATED", "TERMINATION_FAILED"}

\* Statuses of an instance that holds no cloud instance (yet).
UnallocatedStatuses == {"QUEUED", "REQUESTED", "ALLOCATION_FAILED"}

InstanceIdOf(k) == <<"i1", "i2", "i3", "i4">>[k]
CloudIdOf(k) == <<"c1", "c2", "c3", "c4">>[k]

\* The k-th instance of the store in status st. Instances of one launch batch
\* share the launch request id; an allocated instance holds its own cloud
\* instance.
StoreInstance(k, st, rid) ==
    [instance_id |-> InstanceIdOf(k),
     instance_type |-> "m1",
     status |-> st,
     launch_request_id |-> rid,
     cloud_instance_id |-> IF st \in UnallocatedStatuses THEN None ELSE CloudIdOf(k)]

StoreInstanceChoices(k) ==
    {StoreInstance(k, st, "r1") : st \in InstanceStatuses}
        \cup {StoreInstance(k, "QUEUED", None)}

RECURSIVE Stores(_)
Stores(n) ==
    IF n = 0 THEN {<<>>}
    ELSE LET shorter == Stores(n - 1)
         IN  shorter \cup
             {Append(s, i) : s \in {t \in shorter : Len(t) = n - 1},
                             i \in StoreInstanceChoices(n)}

\* The external snapshots passed to sync_from.
RayNodeChoices ==
    {[instance_id |-> "c1", status |-> "RUNNING"],
     [instance_id |-> "c1", status |-> "DEAD"]}

CloudInstanceTypes == [c1 |-> "m1", cx |-> "m1"]

CloudErrorChoices ==
    {[kind |-> "launch", request_id |-> "r1", cloud_instance_id |-> None],
     [kind |-> "terminate", request_id |-> "t1", cloud_instance_id |-> "c1"]}

InstallErrorChoices == {[im_instance_id |-> "i1"]}

\* A snapshot lists the cloud instances and reports at most one ray node or
\* one error.
Snapshots ==
    {snap \in [ray_nodes : {{}} \cup {{n} : n \in RayNodeChoices},
               non_terminated_cloud_instances : {{}, {"c1"}, {"c1", "cx"}},
               cloud_provider_errors : {{}} \cup {{e} : e \in CloudErrorChoices},
               ray_install_errors : {{}} \cup {{e} : e \in InstallErrorChoices}] :
        Cardinality(snap.ray_nodes) + Cardinality(snap.cloud_provider_errors)
            + Cardinality(snap.ray_install_errors) <= 1}

\* ------------------------------------------------------------------------
\* Reconciler: the instance manager's update, and the handlers
\* ------------------------------------------------------------------------

\* A status update: instance id, new status, and the cloud instance bound by it.
Update(id, st, cid) == [instance_id |-> id, status |-> st, cloud_instance_id |-> cid]

ApplyUpdate(instances, u) ==
    [k \in DOMAIN instances |->
        IF instances[k].instance_id = u.instance_id
        THEN [instances[k] EXCEPT !.status = u.status,
                                  !.cloud_instance_id = u.cloud_instance_id]
        ELSE instances[k]]

RECURSIVE ApplyUpdates(_, _)
ApplyUpdates(instances, us) ==
    IF us = <<>> THEN instances
    ELSE ApplyUpdates(ApplyUpdate(instances, Head(us)), Tail(us))

\* Cloud instances of the snapshot that no instance of the store holds.
UnassignedCloudInstances(instances, non_terminated) ==
    {c \in non_terminated :
        \A k \in DOMAIN instances : instances[k].cloud_instance_id # c}

LaunchErrorIds(errors) == {e.request_id : e \in {x \in errors : x.kind = "launch"}}

\* Rules 1 and 2 written out, rule 2 without its guard on the REQUESTED status.
RECURSIVE AllocationUnguarded(_, _, _, _)
AllocationUnguarded(instances, free, errors, k) ==
    IF k > Len(instances) THEN <<>>
    ELSE LET i == instances[k]
             fit == {c \in free : CloudInstanceTypes[c] = i.instance_type}
         IN  IF i.status \in {"QUEUED", "REQUESTED"} /\ i.launch_request_id # None
                /\ fit # {}
             THEN LET c == CHOOSE x \in fit : TRUE
                  IN  <<Update(i.instance_id, "ALLOCATED", c)>>
                        \o AllocationUnguarded(instances, free \ {c}, errors, k + 1)
             ELSE IF i.launch_request_id \in LaunchErrorIds(errors)
                     /\ i.status # "ALLOCATION_FAILED"
             THEN <<Update(i.instance_id, "ALLOCATION_FAILED", None)>>
                        \o AllocationUnguarded(instances, free, errors, k + 1)
             ELSE AllocationUnguarded(instances, free, errors, k + 1)

handle_allocation_unguarded(instances, non_terminated_cloud_instances, cloud_provider_errors) ==
    AllocationUnguarded(instances,
        UnassignedCloudInstances(instances, non_terminated_cloud_instances),
        cloud_provider_errors, 1)

\* Rules 1 and 2 applied one after the other to the same instance.
RECURSIVE AllocationTwice(_, _, _, _)
AllocationTwice(instances, free, errors, k) ==
    IF k > Len(instances) THEN <<>>
    ELSE LET i == instances[k]
             fit == {c \in free : CloudInstanceTypes[c] = i.instance_type}
             alloc == i.status \in {"QUEUED", "REQUESTED"}
                        /\ i.launch_request_id # None /\ fit # {}
             c == CHOOSE x \in fit : TRUE
             failed == i.status = "REQUESTED"
                        /\ i.launch_request_id \in LaunchErrorIds(errors)
         IN  (IF alloc THEN <<Update(i.instance_id, "ALLOCATED", c)>> ELSE <<>>)
             \o (IF failed THEN <<Update(i.instance_id, "ALLOCATION_FAILED", None)>>
                 ELSE <<>>)
             \o AllocationTwice(instances, IF alloc THEN free \ {c} ELSE free,
                                errors, k + 1)

handle_allocation_twice(instances, non_terminated_cloud_instances, cloud_provider_errors) ==
    AllocationTwice(instances,
        UnassignedCloudInstances(instances, non_terminated_cloud_instances),
        cloud_provider_errors, 1)

\* Rule 1 written out, leaving out the cloud instance id in the update.
RECURSIVE AllocationUnbound(_, _, _)
AllocationUnbound(instances, free, k) ==
    IF k > Len(instances) THEN <<>>
    ELSE LET i == instances[k]
             fit == {c \in free : CloudInstanceTypes[c] = i.instance_type}
         IN  IF i.status \in {"QUEUED", "REQUESTED"} /\ i.launch_request_id # None
                /\ fit # {}
             THEN LET c == CHOOSE x \in fit : TRUE
                  IN  <<Update(i.instance_id, "ALLOCATED", None)>>
                        \o AllocationUnbound(instances, free \ {c}, k + 1)
             ELSE AllocationUnbound(instances, free, k + 1)

handle_allocation_unbound(instances, non_terminated_cloud_instances, cloud_provider_errors) ==
    AllocationUnbound(instances,
        UnassignedCloudInstances(instances, non_terminated_cloud_instances), 1)

\* Rule 1 written out, with the unassigned cloud instances computed once and
\* not reduced by the ones the call has given away.
RECURSIVE AllocationShared(_, _, _)
AllocationShared(instances, free, k) ==
    IF k > Len(instances) THEN <<>>
    ELSE LET i == instances[k]
             fit == {c \in free : CloudInstanceTypes[c] = i.instance_type}
         IN  IF i.status \in {"QUEUED", "REQUESTED"} /\ i.launch_request_id # None
                /\ fit # {}
             THEN LET c == CHOOSE x \in fit : TRUE
                  IN  <<Update(i.instance_id, "ALLOCATED", c)>>
                        \o AllocationShared(instances, free, k + 1)
             ELSE AllocationShared(instances, free, k + 1)

handle_allocation_shared(instances, non_terminated_cloud_instances, cloud_provider_errors) ==
    AllocationShared(instances,
        UnassignedCloudInstances(instances, non_terminated_cloud_instances), 1)

\* Rule 7 written out without its guard on the RAY_INSTALLING status: every
\* instance an install error names is RAY_INSTALL_FAILED.
RECURSIVE InstallFailedAny(_, _, _)
InstallFailedAny(instances, ray_install_errors, k) ==
    IF k > Len(instances) THEN <<>>
    ELSE LET i == instances[k]
         IN  (IF \E e \in ray_install_errors : e.im_instance_id = i.instance_id
              THEN <<Update(i.instance_id, "RAY_INSTALL_FAILED", i.cloud_instance_id)>>
              ELSE <<>>)
             \o InstallFailedAny(instances, ray_install_errors, k + 1)

handle_install_failed_any(instances, ray_install_errors) ==
    InstallFailedAny(instances, ray_install_errors, 1)

\* Each handler is given the instances and a part of the snapshot and issues
\* status updates to the instance manager. The body of every handler is
\* `pass`: it issues none.
_handle_cloud_instance_allocation(instances, non_terminated_cloud_instances, cloud_provider_errors) ==
    <<>>

_handle_cloud_instance_terminated(instances, non_terminated_cloud_instances, cloud_provider_errors) ==
    <<>>

_handle_ray_running(instances, ray_nodes) ==
    <<>>

_handle_ray_stopped(instances, ray_nodes) ==
    <<>>

_handle_ray_install_failed(instances, ray_install_errors) ==
    <<>>

\* The rule numbers of sync_from's docstring that each handler covers.
HandlerRules ==
    [allocation |-> {1, 2}, terminated |-> {4, 5}, ray_running |-> {3},
     ray_stopped |-> {6}, install_failed |-> {7}]

\* sync_from that also drops the TERMINATED records from the store.
sync_from_dropping_terminated(snap) ==
    LET u1 == _handle_cloud_instance_allocation(im,
                  snap.non_terminated_cloud_instances, snap.cloud_provider_errors)
        s1 == ApplyUpdates(im, u1)
        u2 == _handle_cloud_instance_terminated(s1,
                  snap.non_terminated_cloud_instances, snap.cloud_provider_errors)
        s2 == ApplyUpdates(s1, u2)
        u3 == _handle_ray_running(s2, snap.ray_nodes)
        s3 == ApplyUpdates(s2, u3)
        u4 == _handle_ray_stopped(s3, snap.ray_nodes)
        s4 == ApplyUpdates(s3, u4)
        u5 == _handle_ray_install_failed(s4, snap.ray_install_errors)
        s5 == ApplyUpdates(s4, u5)
    IN  /\ im' = SelectSeq(s5, LAMBDA i : i.status # "TERMINATED")
        /\ imBefore' = im
        /\ syncIn' = <<snap>>
        /\ syncUpdates' = u1 \o u2 \o u3 \o u4 \o u5
        /\ syncCalls' = <<"allocation", "terminated", "ray_running",
                          "ray_stopped", "install_failed">>
        /\ twoSame' = (lastOp = "sync_from" /\ syncIn = <<snap>>)
        /\ lastOp' = "sync_from"
        /\ UNCHANGED <<stepBefore, stepUpdates>>
        /\ UNCHANGED schedVars
        /\ UNCHANGED outerVars

\* sync_from: the five handlers in the order of the calls, each seeing the
\* instances as the handlers before it left them.
sync_from(snap) ==
    LET u1 == _handle_cloud_instance_allocation(im,
                  snap.non_terminated_cloud_instances, snap.cloud_provider_errors)
        s1 == ApplyUpdates(im, u1)
        u2 == _handle_cloud_instance_terminated(s1,
                  snap.non_terminated_cloud_instances, snap.cloud_provider_errors)
        s2 == ApplyUpdates(s1, u2)
        u3 == _handle_ray_running(s2, snap.ray_nodes)
        s3 == ApplyUpdates(s2, u3)
        u4 == _handle_ray_stopped(s3, snap.ray_nodes)
        s4 == ApplyUpdates(s3, u4)
        u5 == _handle_ray_install_failed(s4, snap.ray_install_errors)
        s5 == ApplyUpdates(s4, u5)
    IN  /\ im' = s5
        /\ imBefore' = im
        /\ syncIn' = <<snap>>
        /\ syncUpdates' = u1 \o u2 \o u3 \o u4 \o u5
        /\ syncCalls' = <<"allocation", "terminated", "ray_running",
                          "ray_stopped", "install_failed">>
        /\ twoSame' = (lastOp = "sync_from" /\ syncIn = <<snap>>)
        /\ lastOp' = "sync_from"
        /\ UNCHANGED <<stepBefore, stepUpdates>>
        /\ UNCHANGED schedVars
        /\ UNCHANGED outerVars

SyncFrom == \E snap \in Snapshots : sync_from(snap)

\* step_next with sub-steps 2 and 3 of its docstring written out, sub-step 3
\* working on the instances as sub-step 2 left them: a new QUEUED instance is
\* created while the store has room, and every QUEUED instance is REQUESTED.
step_next_launching_created ==
    LET created == IF Len(im) < MaxStoreInstances
                   THEN <<StoreInstance(Len(im) + 1, "QUEUED", None)>>
                   ELSE <<>>
        s2 == im \o created
        u2 == [k \in DOMAIN created |-> Update(created[k].instance_id, "QUEUED", None)]
        queued == SelectSeq(s2, LAMBDA i : i.status = "QUEUED")
        u3 == [k \in DOMAIN queued |-> Update(queued[k].instance_id, "REQUESTED", None)]
    IN  /\ im' = ApplyUpdates(s2, u3)
        /\ stepBefore' = im
        /\ stepUpdates' = u2 \o u3
        /\ lastOp' = "step_next"
        /\ twoSame' = FALSE
        /\ UNCHANGED <<imBefore, syncIn, syncUpdates, syncCalls>>
        /\ UNCHANGED schedVars
        /\ UNCHANGED outerVars

\* step_next that removes the records of every status the lifecycle ends in,
\* the failed ones with the TERMINATED ones.
step_next_removing_failed ==
    /\ im' = SelectSeq(im, LAMBDA i : i.status \notin
                {"TERMINATED", "ALLOCATION_FAILED", "TERMINATION_FAILED"})
    /\ stepBefore' = im
    /\ stepUpdates' = <<>>
    /\ lastOp' = "step_next"
    /\ twoSame' = FALSE
    /\ UNCHANGED <<imBefore, syncIn, syncUpdates, syncCalls>>
    /\ UNCHANGED schedVars
    /\ UNCHANGED outerVars

\* step_next: the body is `pass`; it issues no update and leaves the
\* instances as they are.
step_next ==
    /\ im' = im
    /\ stepBefore' = im
    /\ stepUpdates' = <<>>
    /\ lastOp' = "step_next"
    /\ twoSame' = FALSE
    /\ UNCHANGED <<imBefore, syncIn, syncUpdates, syncCalls>>
    /\ UNCHANGED schedVars
    /\ UNCHANGED outerVars

\* ------------------------------------------------------------------------
\* Scheduler: data
\* ------------------------------------------------------------------------

\* The callers of schedule on the one scheduler object.
Callers == {1, 2}

\* get_to_launch divides time.time_ns() by this for request_ts_ms.
NsPerTsUnit == 1000

Instants == {k * NsPerTsUnit : k \in 0..MaxClock}

NodeTypeResources == [m1 |-> [CPU |-> 4], m2 |-> [CPU |-> 8, GPU |-> 1]]

NodeTypeConfig(t, lo, hi) ==
    [name |-> t, min_worker_nodes |-> lo, max_worker_nodes |-> hi,
     resources |-> NodeTypeResources[t], labels |-> [type |-> t]]

\* node_type_configs is a dict: a sequence of configs of distinct names, in
\* insertion order.
NodeTypeConfigChoices ==
    {a \o b :
        a \in {<<>>} \cup {<<NodeTypeConfig("m1", lo, hi)>> :
                              lo \in 0..MaxWorkers, hi \in 1..MaxWorkers},
        b \in {<<>>, <<NodeTypeConfig("m2", 1, MaxWorkers)>>}}

ValidNodeTypeConfigs ==
    {cs \in NodeTypeConfigChoices :
        \A k \in DOMAIN cs : cs[k].min_worker_nodes <= cs[k].max_worker_nodes}

\* The k-th AutoscalerInstance of a request: one with a ray node running on it,
\* one still being launched, one terminated.
RunningInstance(k, t) ==
    [ray_node |-> <<[ray_node_type_name |-> t,
                     total_resources |-> NodeTypeResources[t],
                     available_resources |-> NodeTypeResources[t],
                     dynamic_labels |-> [type |-> t],
                     idle_duration_ms |-> 0]>>,
     im_instance |-> <<[instance_id |-> InstanceIdOf(k), status |-> "RAY_RUNNING",
                        instance_type |-> t]>>]

UnjoinedInstance(k, t, st) ==
    [ray_node |-> <<>>,
     im_instance |-> <<[instance_id |-> InstanceIdOf(k), status |-> st,
                        instance_type |-> t]>>]

AutoscalerInstanceChoices(k) ==
    {RunningInstance(k, "m1"), RunningInstance(k, "m2"),
     UnjoinedInstance(k, "m1", "REQUESTED"), UnjoinedInstance(k, "m2", "ALLOCATED"),
     UnjoinedInstance(k, "m1", "TERMINATED")}

RECURSIVE InstanceLists(_)
InstanceLists(n) ==
    IF n = 0 THEN {<<>>}
    ELSE LET shorter == InstanceLists(n - 1)
         IN  shorter \cup
             {Append(s, i) : s \in {t \in shorter : Len(t) = n - 1},
                             i \in AutoscalerInstanceChoices(n)}

\* Demand: none; one resource request; a resource request, a gang of two
\* bundles and a cluster resource constraint.
DemandChoices ==
    {[resource_requests |-> <<>>, gang_resource_requests |-> <<>>,
      cluster_resource_constraints |-> <<>>],
     [resource_requests |-> <<[request |-> [CPU |-> 2], count |-> 1]>>,
      gang_resource_requests |-> <<>>,
      cluster_resource_constraints |-> <<>>],
     [resource_requests |-> <<[request |-> [CPU |-> 2], count |-> 1]>>,
      gang_resource_requests |-> << <<[GPU |-> 1], [CPU |-> 8]>> >>,
      cluster_resource_constraints |-> << <<[CPU |-> 16]>> >>]}

SchedulingRequests ==
    {[node_type_configs |-> cs,
      max_num_worker_nodes |-> cap,
      resource_requests |-> d.resource_requests,
      gang_resource_requests |-> d.gang_resource_requests,
      cluster_resource_constraints |-> d.cluster_resource_constraints,
      instances |-> is] :
        cs \in ValidNodeTypeConfigs, cap \in {<<>>, <<MaxWorkers>>},
        d \in DemandChoices, is \in InstanceLists(MaxInstances)}

\* The resource requests try_schedule is given.
ResourceRequestChoices == {[CPU |-> 2], [CPU |-> 8], [GPU |-> 1]}

RECURSIVE ListsOf(_, _)
ListsOf(choices, n) ==
    IF n = 0 THEN {<<>>}
    ELSE LET shorter == ListsOf(choices, n - 1)
         IN  shorter \cup {Append(s, x) : s \in {t \in shorter : Len(t) = n - 1},
                                          x \in choices}

ResourceRequestLists == ListsOf(ResourceRequestChoices, MaxRequests)

\* ------------------------------------------------------------------------
\* Scheduler: SchedulingNode and ScheduleContext
\* ------------------------------------------------------------------------

\* The constructor of the SchedulingNode dataclass, with the defaults of the
\* fields the callers leave out.
SchedulingNode(node_type, total, available, labels, status, im_instance_id, idle) ==
    [node_type |-> node_type,
     sched_requests |-> <<>>,
     total_resources |-> total,
     available_resources |-> available,
     labels |-> labels,
     status |-> status,
     launch_reason |-> None,
     termination_reason |-> None,
     im_instance_id |-> im_instance_id,
     idle_duration_ms |-> idle]

\* SchedulingNode.from_node_config: dict(...) copies the config's resources
\* and labels into the node.
from_node_config(node_config, status, im_instance_id) ==
    SchedulingNode(node_config.name, node_config.resources, node_config.resources,
                   node_config.labels, status, im_instance_id, 0)

\* SchedulingNode.try_schedule: the body is `pass`; the node stays as it is
\* and the call returns None.
try_schedule(self, requests) ==
    [self |-> self, returned |-> <<>>]

\* The nodes try_schedule is called on: a node of each type as
\* from_node_config makes it, to be launched or pending.
TryScheduleNodes ==
    {from_node_config(NodeTypeConfig(t, 0, 1), status, None) :
        t \in {"m1", "m2"}, status \in {"TO_LAUNCH", "PENDING"}}

\* node_type_configs.get(node_type, None)
ConfigGet(node_type_configs, node_type) ==
    LET hits == {k \in DOMAIN node_type_configs : node_type_configs[k].name = node_type}
    IN  IF hits = {} THEN <<>> ELSE <<node_type_configs[CHOOSE k \in hits : TRUE]>>

\* InstanceUtil.is_ray_running_reachable: the statuses from which an instance
\* may still come to run ray.
is_ray_running_reachable(status) ==
    status \in {"QUEUED", "REQUESTED", "ALLOCATED", "RAY_INSTALLING"}

\* The loop of from_schedule_request without the `continue` for a missing
\* node config: the pending instance gets a node without resources.
RECURSIVE InstanceNodesNoSkip(_, _)
InstanceNodesNoSkip(instances, node_type_configs) ==
    IF instances = <<>> THEN <<>>
    ELSE LET instance == Head(instances)
             rest == InstanceNodesNoSkip(Tail(instances), node_type_configs)
         IN  IF instance.ray_node # <<>>
             THEN LET ray_node == instance.ray_node[1]
                      im_instance_id ==
                          IF instance.im_instance # <<>>
                          THEN instance.im_instance[1].instance_id ELSE None
                  IN  <<SchedulingNode(ray_node.ray_node_type_name,
                                       ray_node.total_resources,
                                       ray_node.available_resources,
                                       ray_node.dynamic_labels,
                                       "RUNNING", im_instance_id,
                                       ray_node.idle_duration_ms)>> \o rest
             ELSE IF instance.im_instance # <<>>
                     /\ is_ray_running_reachable(instance.im_instance[1].status)
             THEN LET node_config ==
                          ConfigGet(node_type_configs,
                                    instance.im_instance[1].instance_type)
                  IN  IF node_config = <<>>
                      THEN <<SchedulingNode(instance.im_instance[1].instance_type,
                                            [CPU |-> 0], [CPU |-> 0], <<>>, "PENDING",
                                            instance.im_instance[1].instance_id, 0)>>
                               \o rest
                      ELSE <<from_node_config(node_config[1], "PENDING",
                                 instance.im_instance[1].instance_id)>> \o rest
             ELSE rest

\* The loop of from_schedule_request without the is_ray_running_reachable
\* test: every instance without a ray node whose type is configured gets a
\* PENDING node, a terminated one too.
RECURSIVE InstanceNodesAnyStatus(_, _)
InstanceNodesAnyStatus(instances, node_type_configs) ==
    IF instances = <<>> THEN <<>>
    ELSE LET instance == Head(instances)
             rest == InstanceNodesAnyStatus(Tail(instances), node_type_configs)
         IN  IF instance.ray_node # <<>>
             THEN LET ray_node == instance.ray_node[1]
                      im_instance_id ==
                          IF instance.im_instance # <<>>
                          THEN instance.im_instance[1].instance_id ELSE None
                  IN  <<SchedulingNode(ray_node.ray_node_type_name,
                                       ray_node.total_resources,
                                       ray_node.available_resources,
                                       ray_node.dynamic_labels,
                                       "RUNNING", im_instance_id,
                                       ray_node.idle_duration_ms)>> \o rest
             ELSE IF instance.im_instance # <<>>
             THEN LET node_config ==
                          ConfigGet(node_type_configs,
                                    instance.im_instance[1].instance_type)
                  IN  IF node_config = <<>> THEN rest
                      ELSE <<from_node_config(node_config[1], "PENDING",
                                 instance.im_instance[1].instance_id)>> \o rest
             ELSE rest

\* The loop of from_schedule_request over req.instances: the scheduling nodes
\* it appends, in order.
RECURSIVE InstanceNodes(_, _)
InstanceNodes(instances, node_type_configs) ==
    IF instances = <<>> THEN <<>>
    ELSE LET instance == Head(instances)
             rest == InstanceNodes(Tail(instances), node_type_configs)
         IN  IF instance.ray_node # <<>>
             THEN LET ray_node == instance.ray_node[1]
                      im_instance_id ==
                          IF instance.im_instance # <<>>
                          THEN instance.im_instance[1].instance_id ELSE None
                  IN  <<SchedulingNode(ray_node.ray_node_type_name,
                                       ray_node.total_resources,
                                       ray_node.available_resources,
                                       ray_node.dynamic_labels,
                                       "RUNNING", im_instance_id,
                                       ray_node.idle_duration_ms)>> \o rest
             ELSE IF instance.im_instance # <<>>
                     /\ is_ray_running_reachable(instance.im_instance[1].status)
             THEN LET node_config ==
                          ConfigGet(node_type_configs,
                                    instance.im_instance[1].instance_type)
                  IN  IF node_config = <<>> THEN rest
                      ELSE <<from_node_config(node_config[1], "PENDING",
                                 instance.im_instance[1].instance_id)>> \o rest
             ELSE rest

\* The nodes a list of references stands for.
Deref(nodes, objects) == [k \in DOMAIN nodes |-> objects[nodes[k]]]

CountOfType(node_objects, node_type) ==
    Cardinality({k \in DOMAIN node_objects : node_objects[k].node_type = node_type})

\* ScheduleContext._compute_available_node_types: for every configured type,
\* max_worker_nodes minus the nodes of the type in the list.
_compute_available_node_types(node_objects, node_type_configs) ==
    [t \in {node_type_configs[k].name : k \in DOMAIN node_type_configs} |->
        ConfigGet(node_type_configs, t)[1].max_worker_nodes
            - CountOfType(node_objects, t)]

\* ScheduleContext.__init__ by way of from_schedule_request, for caller c's
\* request: _node_type_configs is the request's own dict (c names it), _nodes
\* refers to the objects 1..n of the new heap.
from_schedule_request(c, req) ==
    LET nodes == InstanceNodes(req.instances, req.node_type_configs)
    IN  [_nodes |-> [k \in DOMAIN nodes |-> k],
         _node_type_configs |-> c,
         _node_type_available |->
             _compute_available_node_types(nodes, req.node_type_configs),
         _max_num_worker_nodes |-> req.max_num_worker_nodes,
         objects |-> nodes]

\* ScheduleContext.get_node_type_configs: the dict itself, not a copy.
get_node_type_configs == request[ctx[1]._node_type_configs].node_type_configs

\* ScheduleContext.get_cluster_shape: the count of nodes of each type present.
get_cluster_shape ==
    LET objs == Deref(ctx[1]._nodes, heap)
    IN  [t \in {objs[k].node_type : k \in DOMAIN objs} |-> CountOfType(objs, t)]

\* dict.get(key, default) on a function.
Get(d, key, default) == IF key \in DOMAIN d THEN d[key] ELSE default

\* ScheduleContext.get_nodes: copy.deepcopy of _nodes. The copy is a list of
\* references to copies of the objects, stored from base + 1 on; two entries
\* that were one object are one object in the copy.
get_nodes(base) ==
    [refs |-> [k \in DOMAIN ctx[1]._nodes |-> ctx[1]._nodes[k] + base],
     objects |-> heap]

\* ScheduleContext.update, written in place: the remaining budget is stored
\* into the configs' max_worker_nodes.
update_in_place(new_nodes, new_objects) ==
    LET avail == _compute_available_node_types(Deref(new_nodes, new_objects),
                                               get_node_type_configs)
        owner == ctx[1]._node_type_configs
    IN  /\ ctx' = <<[ctx[1] EXCEPT !._nodes = new_nodes,
                                   !._node_type_available = avail]>>
        /\ heap' = new_objects
        /\ request' = [request EXCEPT ![owner].node_type_configs =
                          [k \in DOMAIN get_node_type_configs |->
                              [get_node_type_configs[k] EXCEPT
                                  !.max_worker_nodes =
                                      avail[get_node_type_configs[k].name]]]]

\* ScheduleContext.update without the recomputation of the launch budget.
update_stale_budget(new_nodes, new_objects) ==
    /\ ctx' = <<[ctx[1] EXCEPT !._nodes = new_nodes]>>
    /\ heap' = new_objects
    /\ UNCHANGED request

\* ScheduleContext.update: the new list of nodes, and the launch budget
\* computed anew from it. new_objects are the objects new_nodes refers to.
update(new_nodes, new_objects) ==
    /\ ctx' = <<[ctx[1] EXCEPT
                    !._nodes = new_nodes,
                    !._node_type_available =
                        _compute_available_node_types(
                            Deref(new_nodes, new_objects), get_node_type_configs)]>>
    /\ heap' = new_objects
    /\ UNCHANGED request

\* [x] * n
RECURSIVE Repeat(_, _)
Repeat(x, n) == IF n <= 0 THEN <<>> ELSE <<x>> \o Repeat(x, n - 1)

\* The loop of _enforce_min_workers with the multiplication left out: one
\* node for each type below its minimum.
RECURSIVE MinWorkerNodesOnce(_, _, _)
MinWorkerNodesOnce(node_type_configs, count_by_node_type, made) ==
    IF node_type_configs = <<>> THEN [objects |-> <<>>, refs |-> <<>>]
    ELSE LET node_type_config == Head(node_type_configs)
             cur_count == Get(count_by_node_type, node_type_config.name, 0)
             min_count == node_type_config.min_worker_nodes
         IN  IF cur_count < min_count
             THEN LET rest == MinWorkerNodesOnce(Tail(node_type_configs),
                                                 count_by_node_type, made + 1)
                  IN  [objects |-> <<from_node_config(node_type_config,
                                                      "TO_LAUNCH", None)>>
                                    \o rest.objects,
                       refs |-> <<made + 1>> \o rest.refs]
             ELSE MinWorkerNodesOnce(Tail(node_type_configs),
                                     count_by_node_type, made)

\* The loop of _enforce_min_workers over the configs: for each type below its
\* minimum ONE new SchedulingNode object (the `made + 1`-th), and new_nodes
\* extended by min_count - cur_count references to that one object.
RECURSIVE MinWorkerNodes(_, _, _)
MinWorkerNodes(node_type_configs, count_by_node_type, made) ==
    IF node_type_configs = <<>> THEN [objects |-> <<>>, refs |-> <<>>]
    ELSE LET node_type_config == Head(node_type_configs)
             cur_count == Get(count_by_node_type, node_type_config.name, 0)
             min_count == node_type_config.min_worker_nodes
         IN  IF cur_count < min_count
             THEN LET rest == MinWorkerNodes(Tail(node_type_configs),
                                             count_by_node_type, made + 1)
                  IN  [objects |-> <<from_node_config(node_type_config,
                                                      "TO_LAUNCH", None)>>
                                    \o rest.objects,
                       refs |-> Repeat(made + 1, min_count - cur_count)
                                    \o rest.refs]
             ELSE MinWorkerNodes(Tail(node_type_configs), count_by_node_type, made)

\* The three placement phases: each returns an empty list of infeasible
\* demand and leaves the context as it is.
_enforce_resource_constraints(constraints) == <<>>

_sched_gang_resource_requests(gang_requests) == <<>>

_sched_resource_requests(requests_by_count) == <<>>

\* utils.resource_requests_by_count: equal requests grouped, with their count.
RECURSIVE resource_requests_by_count(_)
resource_requests_by_count(requests) ==
    IF requests = <<>> THEN <<>>
    ELSE LET r == Head(requests)
             others == SelectSeq(Tail(requests), LAMBDA x : x # r)
         IN  <<[request |-> r, count |-> Len(requests) - Len(others)]>>
                 \o resource_requests_by_count(others)

\* str() of a natural number: its decimal digits.
RECURSIVE str(_)
str(n) ==
    LET digit == <<"0", "1", "2", "3", "4", "5", "6", "7", "8", "9">>[(n % 10) + 1]
    IN  IF n < 10 THEN <<digit>> ELSE str(n \div 10) \o <<digit>>

\* get_to_launch: the keys of launch_by_type, in the order of insertion.
RECURSIVE LaunchTypes(_, _)
LaunchTypes(node_objects, seen) ==
    IF node_objects = <<>> THEN <<>>
    ELSE LET node == Head(node_objects)
         IN  IF node.status = "TO_LAUNCH" /\ node.node_type \notin seen
             THEN <<node.node_type>>
                    \o LaunchTypes(Tail(node_objects), seen \cup {node.node_type})
             ELSE LaunchTypes(Tail(node_objects), seen)

\* get_to_launch without the grouping by type: a LaunchRequest of count 1 for
\* each TO_LAUNCH node.
get_to_launch_per_node(times) ==
    LET objs == Deref(ctx[1]._nodes, heap)
        launch == SelectSeq(objs, LAMBDA node : node.status = "TO_LAUNCH")
    IN  [k \in DOMAIN launch |->
            [instance_type |-> launch[k].node_type,
             count |-> 1,
             id |-> str(times[1]),
             request_ts_ms |-> times[2] \div NsPerTsUnit]]

\* get_to_launch: one LaunchRequest for each type with TO_LAUNCH nodes; times
\* are the values the calls of time.time_ns() return, two for each request.
get_to_launch(times) ==
    LET objs == Deref(ctx[1]._nodes, heap)
        types == LaunchTypes(objs, {})
    IN  [k \in DOMAIN types |->
            [instance_type |-> types[k],
             count |-> Cardinality({j \in DOMAIN objs :
                          objs[j].status = "TO_LAUNCH" /\ objs[j].node_type = types[k]}),
             id |-> str(times[2 * k - 1]),
             request_ts_ms |-> times[2 * k] \div NsPerTsUnit]]

\* The values n successive calls of time.time_ns() may return.
ClockReads(n) ==
    {ts \in [1..n -> Instants] :
        /\ \A k \in 1..n : ts[k] >= clock
        /\ \A j, k \in 1..n : j < k => ts[j] <= ts[k]}

\* get_to_terminate reads node.autoscaling_instance, which SchedulingNode does
\* not have: it raises for a TO_TERMINATE node, and returns {} without one.
ToTerminateNodes ==
    {k \in DOMAIN ctx[1]._nodes : heap[ctx[1]._nodes[k]].status = "TO_TERMINATE"}

\* ------------------------------------------------------------------------
\* Scheduler: schedule, step by step
\* ------------------------------------------------------------------------

NoLocals ==
    [request_at_entry |-> <<>>, infeasible_constraints |-> <<>>,
     infeasible_gang_requests |-> <<>>, infeasible_requests |-> <<>>]

\* schedule is entered: _init_context sets self._ctx from the request.
_init_context(c) ==
    LET made == from_schedule_request(c, request[c])
    IN  /\ pc[c] = "idle"
        /\ ctx' = <<[_nodes |-> made._nodes,
                     _node_type_configs |-> made._node_type_configs,
                     _node_type_available |-> made._node_type_available,
                     _max_num_worker_nodes |-> made._max_num_worker_nodes]>>
        /\ heap' = made.objects
        /\ local' = [local EXCEPT ![c] = [NoLocals EXCEPT
                                             !.request_at_entry = <<request[c]>>]]
        /\ pc' = [pc EXCEPT ![c] = "min_workers"]
        /\ UNCHANGED <<request, reply, clock>>
        /\ UNCHANGED tried
        /\ UNCHANGED recVars
        /\ UNCHANGED outerVars

\* 1. Enforce the minimal count of nodes for each worker node type.
_enforce_min_workers(c) ==
    /\ pc[c] = "min_workers"
    /\ LET count_by_node_type == get_cluster_shape
           new == MinWorkerNodes(get_node_type_configs, count_by_node_type, 0)
           old == get_nodes(Len(new.objects))
       IN  update(new.refs \o old.refs, new.objects \o old.objects)
    /\ pc' = [pc EXCEPT ![c] = "constraints"]
    /\ UNCHANGED <<local, reply, clock>>
    /\ UNCHANGED tried
    /\ UNCHANGED recVars
    /\ UNCHANGED outerVars

\* 2. Enforce the cluster resource constraints.
EnforceResourceConstraints(c) ==
    /\ pc[c] = "constraints"
    /\ local' = [local EXCEPT ![c].infeasible_constraints =
                    _enforce_resource_constraints(
                        request[c].cluster_resource_constraints)]
    /\ pc' = [pc EXCEPT ![c] = "gang"]
    /\ UNCHANGED <<request, ctx, heap, reply, clock>>
    /\ UNCHANGED tried
    /\ UNCHANGED recVars
    /\ UNCHANGED outerVars

\* 3. Schedule the gang resource requests.
SchedGangResourceRequests(c) ==
    /\ pc[c] = "gang"
    /\ local' = [local EXCEPT ![c].infeasible_gang_requests =
                    _sched_gang_resource_requests(request[c].gang_resource_requests)]
    /\ pc' = [pc EXCEPT ![c] = "requests"]
    /\ UNCHANGED <<request, ctx, heap, reply, clock>>
    /\ UNCHANGED tried
    /\ UNCHANGED recVars
    /\ UNCHANGED outerVars

\* 4. Schedule the tasks/actor resource requests.
SchedResourceRequests(c) ==
    /\ pc[c] = "requests"
    /\ local' = [local EXCEPT ![c].infeasible_requests =
                    _sched_resource_requests(request[c].resource_requests)]
    /\ pc' = [pc EXCEPT ![c] = "reply"]
    /\ UNCHANGED <<request, ctx, heap, reply, clock>>
    /\ UNCHANGED tried
    /\ UNCHANGED recVars
    /\ UNCHANGED outerVars

\* The SchedulingReply is built from the context and returned.
Reply(c) ==
    /\ pc[c] = "reply"
    /\ LET n == 2 * Len(LaunchTypes(Deref(ctx[1]._nodes, heap), {}))
       IN  \E times \in ClockReads(n) :
             /\ clock' = IF n = 0 THEN clock ELSE times[n]
             /\ IF ToTerminateNodes # {}
                THEN /\ pc' = [pc EXCEPT ![c] = "raised"]
                     /\ UNCHANGED reply
                ELSE /\ pc' = [pc EXCEPT ![c] = "done"]
                     /\ reply' = [reply EXCEPT ![c] =
                          <<[infeasible_resource_requests |->
                                 resource_requests_by_count(
                                     local[c].infeasible_requests),
                             infeasible_gang_resource_requests |->
                                 local[c].infeasible_gang_requests,
                             infeasible_cluster_resource_constraints |->
                                 local[c].infeasible_constraints,
                             to_launch |-> get_to_launch(times),
                             to_terminate |-> <<>>]>>]
    /\ UNCHANGED <<request, ctx, heap, local>>
    /\ UNCHANGED tried
    /\ UNCHANGED recVars
    /\ UNCHANGED outerVars

\* One step of caller c's schedule; a call is entered when the calls of the
\* callers before c have returned and no other call is running.
ScheduleStep(c) ==
    \/ /\ \A d \in Callers : (d < c => pc[d] = "done") /\ (d > c => pc[d] = "idle")
       /\ _init_context(c)
    \/ _enforce_min_workers(c)
    \/ EnforceResourceConstraints(c)
    \/ SchedGangResourceRequests(c)
    \/ SchedResourceRequests(c)
    \/ Reply(c)

\* try_schedule called on a node of the heap with a list of resource requests.
TrySchedule ==
    \E k \in DOMAIN heap, requests \in ResourceRequestLists :
        LET out == try_schedule(heap[k], requests)
        IN  /\ heap' = [heap EXCEPT ![k] = out.self]
            /\ tried' = <<[node |-> k, before |-> heap[k], requests |-> requests,
                           returned |-> out.returned]>>
            /\ UNCHANGED <<request, ctx, pc, local, reply, clock>>
            /\ UNCHANGED recVars
            /\ UNCHANGED outerVars

\* One step of caller c's schedule when nothing keeps the calls apart: a
\* call is entered and goes on whatever the position of the other call.
InterleavedStep(c) ==
    \/ _init_context(c)
    \/ _enforce_min_workers(c)
    \/ EnforceResourceConstraints(c)
    \/ SchedGangResourceRequests(c)
    \/ SchedResourceRequests(c)
    \/ Reply(c)

\* ------------------------------------------------------------------------
\* Scheduler: the accessors of ScheduleContext and what their callers hold
\* ------------------------------------------------------------------------

\* What the context holds: its nodes, its launch budget, its configs.
ContextView ==
    [nodes |-> Deref(ctx[1]._nodes, heap),
     budget |-> ctx[1]._node_type_available,
     configs |-> get_node_type_configs]

\* What an accessor returned: a value of the caller's own, or (ref) the dict
\* of the request that the context's _node_type_configs is.
Returned_(accessor, ref, value) ==
    [accessor |-> accessor, ref |-> ref, value |-> value, mutated |-> FALSE,
     element |-> 0, list_before |-> <<>>, list_after |-> <<>>,
     before |-> <<>>, after |-> <<>>]

\* get_nodes(): the caller holds the deep copy.
GetNodes ==
    /\ ctx # <<>>
    /\ got = <<>>
    /\ got' = <<Returned_("get_nodes", <<>>, get_nodes(0))>>
    /\ UNCHANGED <<provider, schedVars, recVars>>

\* get_cluster_shape(): the caller holds the new dict.
GetClusterShape ==
    /\ ctx # <<>>
    /\ got = <<>>
    /\ got' = <<Returned_("get_cluster_shape", <<>>, get_cluster_shape)>>
    /\ UNCHANGED <<provider, schedVars, recVars>>

\* get_node_type_configs(): the caller holds self._node_type_configs itself.
GetNodeTypeConfigs ==
    /\ ctx # <<>>
    /\ got = <<>>
    /\ got' = <<Returned_("get_node_type_configs",
                          <<ctx[1]._node_type_configs>>, <<>>)>>
    /\ UNCHANGED <<provider, schedVars, recVars>>

\* A request committed to a node: deducted from its available resources and
\* appended to its sched_requests.
Commit(node, r) ==
    [node EXCEPT
        !.available_resources =
            [res \in DOMAIN @ |-> IF res \in DOMAIN r THEN @[res] - r[res] ELSE @[res]],
        !.sched_requests = Append(@, r)]

\* The caller commits a request to one node of the list get_nodes returned.
MutateNodes ==
    /\ got # <<>>
    /\ got[1].accessor = "get_nodes"
    /\ ~got[1].mutated
    /\ \E k \in DOMAIN got[1].value.refs, r \in ResourceRequestChoices :
          LET list == got[1].value
              o == list.refs[k]
              objects == [list.objects EXCEPT ![o] = Commit(@, r)]
          IN  /\ \A res \in DOMAIN r :
                    /\ res \in DOMAIN list.objects[o].available_resources
                    /\ list.objects[o].available_resources[res] >= r[res]
              /\ UNCHANGED <<provider, schedVars, recVars>>
              /\ got' = <<[got[1] EXCEPT
                              !.value = [refs |-> list.refs, objects |-> objects],
                              !.mutated = TRUE,
                              !.element = k,
                              !.list_before = Deref(list.refs, list.objects),
                              !.list_after = Deref(list.refs, objects),
                              !.before = ContextView,
                              !.after = ContextView']>>

\* The caller counts one node more of a type in the dict get_cluster_shape
\* returned.
MutateClusterShape ==
    /\ got # <<>>
    /\ got[1].accessor = "get_cluster_shape"
    /\ ~got[1].mutated
    /\ \E t \in DOMAIN got[1].value :
          /\ UNCHANGED <<provider, schedVars, recVars>>
          /\ got' = <<[got[1] EXCEPT
                          !.value = [@ EXCEPT ![t] = @ + 1],
                          !.mutated = TRUE,
                          !.before = ContextView,
                          !.after = ContextView']>>

\* The caller pops the first entry of the dict get_node_type_configs
\* returned.
MutateNodeTypeConfigs ==
    /\ got # <<>>
    /\ got[1].accessor = "get_node_type_configs"
    /\ ~got[1].mutated
    /\ LET owner == got[1].ref[1]
       IN  /\ request[owner].node_type_configs # <<>>
           /\ request' = [request EXCEPT ![owner].node_type_configs = Tail(@)]
    /\ UNCHANGED <<ctx, heap, pc, local, reply, clock, tried>>
    /\ UNCHANGED <<provider, recVars>>
    /\ got' = <<[got[1] EXCEPT !.mutated = TRUE,
                               !.before = ContextView,
                               !.after = ContextView']>>

\* ------------------------------------------------------------------------
\* The provider adapter under test_launch_executor_concurrency
\* ------------------------------------------------------------------------

\* The node types of the test's config, in the order of a launch shape.
ProviderNodeTypes == <<"worker_nodes", "worker_nodes1", "worker_nodes2">>

\* The shapes passed to launch: one node of each type of a non-empty choice
\* of types.
LaunchShapes ==
    {SelectSeq(ProviderNodeTypes, LAMBDA t : t \in chosen) :
        chosen \in (SUBSET Range(ProviderNodeTypes)) \ {{}}}

\* A NodeProviderAdapter over a MagicMock base provider whose
\* create_node_with_resources_and_labels waits for launch_event.
ProviderTester(max_concurrent_launches, shape) ==
    [max_concurrent_launches |-> max_concurrent_launches,
     shape |-> shape,
     launched |-> FALSE,
     queue |-> <<>>,
     in_flight |-> {},
     created |-> {},
     call_count |-> 0,
     launch_event |-> FALSE]

\* provider.launch(shape, request_id): the adapter hands its executor a
\* creation of each type of the shape.
ProviderLaunch ==
    /\ provider # <<>>
    /\ ~provider.launched
    /\ provider' = [provider EXCEPT !.launched = TRUE, !.queue = provider.shape]
    /\ UNCHANGED <<got, schedVars, recVars>>

\* The executor starts the next creation whatever the number of creations
\* in flight.
StartCreateUnbounded ==
    /\ provider # <<>>
    /\ provider.queue # <<>>
    /\ provider' = [provider EXCEPT
                       !.queue = Tail(provider.queue),
                       !.in_flight = @ \cup {Head(provider.queue)},
                       !.call_count = @ + 1]
    /\ UNCHANGED <<got, schedVars, recVars>>

\* The executor starts the next creation when fewer than
\* max_concurrent_launches are in flight: the base provider's
\* create_node_with_resources_and_labels is called.
StartCreate ==
    /\ provider # <<>>
    /\ provider.queue # <<>>
    /\ Cardinality(provider.in_flight) < provider.max_concurrent_launches
    /\ provider' = [provider EXCEPT
                       !.queue = Tail(provider.queue),
                       !.in_flight = @ \cup {Head(provider.queue)},
                       !.call_count = @ + 1]
    /\ UNCHANGED <<got, schedVars, recVars>>

\* launch_event.set(): the test lets the creations finish.
SetLaunchEvent ==
    /\ provider # <<>>
    /\ provider.launched
    /\ ~provider.launch_event
    /\ provider' = [provider EXCEPT !.launch_event = TRUE]
    /\ UNCHANGED <<got, schedVars, recVars>>

\* loop: a creation in flight returns once launch_event is set.
ReturnCreate ==
    /\ provider # <<>>
    /\ provider.launch_event
    /\ \E t \in provider.in_flight :
          provider' = [provider EXCEPT !.in_flight = @ \ {t},
                                       !.created = @ \cup {t}]
    /\ UNCHANGED <<got, schedVars, recVars>>

\* ------------------------------------------------------------------------
\* Specifications
\* ------------------------------------------------------------------------

RecIdle ==
    /\ im = <<>>
    /\ imBefore = <<>>
    /\ syncIn = <<>>
    /\ syncUpdates = <<>>
    /\ syncCalls = <<>>
    /\ lastOp = "none"
    /\ twoSame = FALSE
    /\ stepBefore = <<>>
    /\ stepUpdates = <<>>

SchedIdle ==
    /\ ctx = <<>>
    /\ heap = <<>>
    /\ pc = [c \in Callers |-> "idle"]
    /\ local = [c \in Callers |-> NoLocals]
    /\ reply = [c \in Callers |-> <<>>]
    /\ clock = 0
    /\ tried = <<>>
    /\ got = <<>>
    /\ provider = <<>>

\* The reconciler over a store of the instance manager.
InitReconciler ==
    /\ im \in Stores(MaxStoreInstances)
    /\ imBefore = im
    /\ syncIn = <<>>
    /\ syncUpdates = <<>>
    /\ syncCalls = <<>>
    /\ lastOp = "none"
    /\ twoSame = FALSE
    /\ stepBefore = im
    /\ stepUpdates = <<>>
    /\ request = [c \in Callers |-> <<>>]
    /\ SchedIdle

NextReconciler ==
    \/ SyncFrom
    \/ step_next

SpecReconciler == InitReconciler /\ [][NextReconciler]_vars

\* The scheduler object called twice, one call after the other, with equal
\* requests.
InitScheduler ==
    /\ \E r \in SchedulingRequests : request = [c \in Callers |-> r]
    /\ SchedIdle
    /\ RecIdle

NextScheduler == \E c \in Callers : ScheduleStep(c)

SpecScheduler == InitScheduler /\ [][NextScheduler]_vars

\* A SchedulingNode on which try_schedule is called, any number of times.
InitTrySchedule ==
    /\ heap \in {<<node>> : node \in TryScheduleNodes}
    /\ ctx = <<>>
    /\ pc = [c \in Callers |-> "idle"]
    /\ local = [c \in Callers |-> NoLocals]
    /\ reply = [c \in Callers |-> <<>>]
    /\ clock = 0
    /\ tried = <<>>
    /\ got = <<>>
    /\ provider = <<>>
    /\ request = [c \in Callers |-> <<>>]
    /\ RecIdle

NextTrySchedule == TrySchedule

SpecTrySchedule == InitTrySchedule /\ [][NextTrySchedule]_vars

\* The scheduler object called by two callers at once, each with a request
\* of its own: no demand, no cap, and no instance or one running m1 node.
InterleavedRequests ==
    {r \in SchedulingRequests :
        /\ r.resource_requests = <<>>
        /\ r.gang_resource_requests = <<>>
        /\ r.cluster_resource_constraints = <<>>
        /\ r.max_num_worker_nodes = <<>>
        /\ r.instances \in {<<>>, <<RunningInstance(1, "m1")>>}}

InitInterleaved ==
    /\ request \in [Callers -> InterleavedRequests]
    /\ SchedIdle
    /\ RecIdle

NextInterleaved == \E c \in Callers : InterleavedStep(c)

SpecInterleaved == InitInterleaved /\ [][NextInterleaved]_vars

\* A provider adapter given one launch request; the test sets launch_event
\* in the end, and the executor's threads and the creations go on running.
InitProvider ==
    /\ \E n \in 1..MaxConcurrentLaunches, shape \in LaunchShapes :
          provider = ProviderTester(n, shape)
    /\ got = <<>>
    /\ ctx = <<>>
    /\ heap = <<>>
    /\ pc = [c \in Callers |-> "idle"]
    /\ local = [c \in Callers |-> NoLocals]
    /\ reply = [c \in Callers |-> <<>>]
    /\ clock = 0
    /\ tried = <<>>
    /\ request = [c \in Callers |-> <<>>]
    /\ RecIdle

NextProvider ==
    \/ ProviderLaunch
    \/ StartCreate
    \/ SetLaunchEvent
    \/ ReturnCreate

SpecProvider ==
    /\ InitProvider
    /\ [][NextProvider]_vars
    /\ WF_vars(ProviderLaunch)
    /\ WF_vars(StartCreate)
    /\ WF_vars(SetLaunchEvent)
    /\ WF_vars(ReturnCreate)

\* A schedule call on a request without demand and without cap, and a caller
\* of one accessor of the context who changes what the accessor returned.
AccessorRequests ==
    {r \in SchedulingRequests :
        /\ r.resource_requests = <<>>
        /\ r.gang_resource_requests = <<>>
        /\ r.cluster_resource_constraints = <<>>
        /\ r.max_num_worker_nodes = <<>>}

InitAccessors ==
    /\ \E r \in AccessorRequests : request = [c \in Callers |-> r]
    /\ SchedIdle
    /\ RecIdle

NextAccessors ==
    \/ ScheduleStep(1)
    \/ GetNodes
    \/ GetClusterShape
    \/ GetNodeTypeConfigs
    \/ MutateNodes
    \/ MutateClusterShape
    \/ MutateNodeTypeConfigs

SpecAccessors == InitAccessors /\ [][NextAccessors]_vars

\* ------------------------------------------------------------------------
\* Properties of the reconciler
\* ------------------------------------------------------------------------

\* The updates the last sync_from issued for the instance of this id.
UpdatesOf(id) == {j \in DOMAIN syncUpdates : syncUpdates[j].instance_id = id}

\* C1: sync_from is idempotent: a sync_from called right after a sync_from
\* with the same snapshot leaves the instances as the first call left them.
C1_SyncFromIdempotent == twoSame => im = imBefore

\* A second sync_from with the same snapshot has run, on a store of two
\* instances one of which is REQUESTED, with a launch error for its request
\* and a cloud instance no instance holds.
C1_Witness ==
    /\ twoSame
    /\ Len(im) = 2
    /\ \E k \in DOMAIN im : im[k].status = "REQUESTED"
    /\ syncIn[1].cloud_provider_errors # {}
    /\ "cx" \in syncIn[1].non_terminated_cloud_instances

\* C2: after sync_from, an instance that was REQUESTED and whose launch
\* request id a provider error of the snapshot names (and for which no
\* unassigned cloud instance is there to allocate) is ALLOCATION_FAILED, and
\* no other instance becomes ALLOCATION_FAILED.
C2_RequestedWithErrorFails ==
    lastOp = "sync_from" =>
        LET failed == LaunchErrorIds(syncIn[1].cloud_provider_errors)
            free == UnassignedCloudInstances(imBefore,
                        syncIn[1].non_terminated_cloud_instances)
        IN  \A k \in DOMAIN imBefore :
                IF imBefore[k].status = "REQUESTED"
                    /\ imBefore[k].launch_request_id \in failed
                THEN free = {} => im[k].status = "ALLOCATION_FAILED"
                ELSE im[k].status = "ALLOCATION_FAILED"
                        => imBefore[k].status = "ALLOCATION_FAILED"

\* C9: in one sync_from call at most one status update is issued for an
\* instance.
C9_OneTransitionPerSync ==
    \A k \in DOMAIN im : Cardinality(UpdatesOf(im[k].instance_id)) <= 1

\* sync_from has run on a REQUESTED instance to which rule 1 (a cloud instance
\* of its type that no instance holds) and rule 2 (a launch error for its
\* request) both apply.
C9_Witness ==
    /\ lastOp = "sync_from"
    /\ \E k \in DOMAIN imBefore :
        /\ imBefore[k].status = "REQUESTED"
        /\ imBefore[k].launch_request_id
              \in LaunchErrorIds(syncIn[1].cloud_provider_errors)
        /\ UnassignedCloudInstances(imBefore,
              syncIn[1].non_terminated_cloud_instances) # {}

\* C10: sync_from invokes the handlers of its rules in the order of the rule
\* numbers 1..7: a handler invoked before another covers only smaller rule
\* numbers (rule 3, RAY_RUNNING, before rule 4, TERMINATED).
C10_RulesInNumberedOrder ==
    \A j, k \in DOMAIN syncCalls :
        j < k => \A a \in HandlerRules[syncCalls[j]], b \in HandlerRules[syncCalls[k]] :
                    a < b

InstanceIds(instances) == {instances[k].instance_id : k \in DOMAIN instances}

\* C11: sync_from creates and deletes no instance record: after it the store
\* holds the instance ids it held before, each once, and an instance differs
\* from what it was in nothing but its status and the cloud instance bound
\* to it.
C11_SyncFromKeepsRecords ==
    lastOp = "sync_from" =>
        /\ InstanceIds(im) = InstanceIds(imBefore)
        /\ Len(im) = Len(imBefore)
        /\ \A i \in Range(im), b \in Range(imBefore) :
              i.instance_id = b.instance_id =>
                  /\ i.instance_type = b.instance_type
                  /\ i.launch_request_id = b.launch_request_id

\* sync_from has run on a store that holds a TERMINATED and a REQUESTED
\* instance, with a snapshot that lists a cloud instance no instance holds.
C11_Witness ==
    /\ lastOp = "sync_from"
    /\ \E k \in DOMAIN imBefore : imBefore[k].status = "TERMINATED"
    /\ \E k \in DOMAIN imBefore : imBefore[k].status = "REQUESTED"
    /\ "cx" \in syncIn[1].non_terminated_cloud_instances

\* The updates the last step_next issued for the instance of this id.
StepUpdatesOf(id) == {j \in DOMAIN stepUpdates : stepUpdates[j].instance_id = id}

\* C14: in one step_next call at most one status update is issued for an
\* instance, be it one the store held when the call began or one the call
\* created.
C14_OneHopPerStep ==
    \A id \in InstanceIds(im) \cup InstanceIds(stepBefore) :
        Cardinality(StepUpdatesOf(id)) <= 1

\* step_next has run, after a sync_from, on a store that holds a QUEUED
\* instance and has room for another.
C14_Witness ==
    /\ lastOp = "step_next"
    /\ syncIn # <<>>
    /\ Len(stepBefore) < MaxStoreInstances
    /\ \E k \in DOMAIN stepBefore : stepBefore[k].status = "QUEUED"

\* C15: after step_next, every instance that was QUEUED when the call began
\* is in the store with status REQUESTED.
C15_QueuedAreRequested ==
    lastOp = "step_next" =>
        \A b \in Range(stepBefore) : b.status = "QUEUED" =>
            \E i \in Range(im) :
                i.instance_id = b.instance_id /\ i.status = "REQUESTED"

\* The instances as they were when the last operation was entered.
BeforeLastOp == IF lastOp = "step_next" THEN stepBefore ELSE imBefore

\* C16: over sync_from and step_next calls, a record that an operation adds
\* to the store is QUEUED, and a record that an operation removes from the
\* store was TERMINATED.
C16_EntersQueuedLeavesTerminated ==
    /\ \A i \in Range(im) :
          i.instance_id \notin InstanceIds(BeforeLastOp) => i.status = "QUEUED"
    /\ \A b \in Range(BeforeLastOp) :
          b.instance_id \notin InstanceIds(im) => b.status = "TERMINATED"

\* step_next has run, after a sync_from, on a store that holds an
\* ALLOCATION_FAILED and a TERMINATED instance.
C16_Witness ==
    /\ lastOp = "step_next"
    /\ syncIn # <<>>
    /\ \E k \in DOMAIN stepBefore : stepBefore[k].status = "ALLOCATION_FAILED"
    /\ \E k \in DOMAIN stepBefore : stepBefore[k].status = "TERMINATED"

\* The statuses of an instance to which a cloud instance has been allocated:
\* ALLOCATED and the statuses the lifecycle reaches from it.
AllocatedStatuses ==
    InstanceStatuses \ {"QUEUED", "REQUESTED", "ALLOCATION_FAILED"}

\* C17: in every state of the store an instance has a cloud instance id if
\* and only if its status is ALLOCATED or one the lifecycle reaches from it;
\* a QUEUED or REQUESTED instance has none.
C17_CloudIdIffAllocated ==
    \A i \in Range(im) :
        /\ i.cloud_instance_id # None <=> i.status \in AllocatedStatuses
        /\ i.status \in {"QUEUED", "REQUESTED"} => i.cloud_instance_id = None

\* sync_from has run on a REQUESTED instance with a launch request id, with
\* a cloud instance in the snapshot that no instance holds, next to an
\* instance that holds its cloud instance.
C17_Witness ==
    /\ lastOp = "sync_from"
    /\ \E k \in DOMAIN imBefore :
        /\ imBefore[k].status = "REQUESTED"
        /\ imBefore[k].launch_request_id # None
    /\ \E k \in DOMAIN imBefore : imBefore[k].status = "RAY_RUNNING"
    /\ UnassignedCloudInstances(imBefore,
          syncIn[1].non_terminated_cloud_instances) # {}

\* C18: no cloud instance is bound to two instances of the store, also after
\* a sync_from in which several QUEUED or REQUESTED instances with launch
\* request ids compete for one unassigned cloud instance.
C18_NoSharedCloudInstance ==
    \A j, k \in DOMAIN im :
        (j # k /\ im[j].cloud_instance_id # None)
            => im[j].cloud_instance_id # im[k].cloud_instance_id

\* sync_from has run on two QUEUED or REQUESTED instances with launch request
\* ids, with one cloud instance in the snapshot that no instance holds.
C18_Witness ==
    /\ lastOp = "sync_from"
    /\ Len(imBefore) = 2
    /\ \A k \in DOMAIN imBefore :
        /\ imBefore[k].status \in {"QUEUED", "REQUESTED"}
        /\ imBefore[k].launch_request_id # None
    /\ Cardinality(UnassignedCloudInstances(imBefore,
          syncIn[1].non_terminated_cloud_instances)) = 1

\* C21: an error of the snapshot that matches no in-flight instance changes
\* no status: after sync_from an instance has newly become ALLOCATION_FAILED,
\* TERMINATION_FAILED or RAY_INSTALL_FAILED only if it was REQUESTED,
\* TERMINATING or RAY_INSTALLING and an error of the snapshot names its launch
\* request, its cloud instance or its instance id.
C21_UnmatchedErrorsDropped ==
    lastOp = "sync_from" =>
        \A k \in DOMAIN im \cap DOMAIN imBefore :
            LET b == imBefore[k]
                errors == syncIn[1].cloud_provider_errors
            IN  im[k].status # b.status =>
                  /\ im[k].status = "ALLOCATION_FAILED" =>
                        /\ b.status = "REQUESTED"
                        /\ b.launch_request_id \in LaunchErrorIds(errors)
                  /\ im[k].status = "TERMINATION_FAILED" =>
                        /\ b.status = "TERMINATING"
                        /\ \E e \in errors :
                              /\ e.kind = "terminate"
                              /\ e.cloud_instance_id = b.cloud_instance_id
                  /\ im[k].status = "RAY_INSTALL_FAILED" =>
                        /\ b.status = "RAY_INSTALLING"
                        /\ \E e \in syncIn[1].ray_install_errors :
                              e.im_instance_id = b.instance_id

\* sync_from has run and returned with an install error for an instance that
\* is not RAY_INSTALLING but RAY_RUNNING.
C21_Witness ==
    /\ lastOp = "sync_from"
    /\ \E e \in syncIn[1].ray_install_errors :
          \E k \in DOMAIN imBefore :
              /\ imBefore[k].instance_id = e.im_instance_id
              /\ imBefore[k].status = "RAY_RUNNING"

\* ------------------------------------------------------------------------
\* Properties of the provider adapter
\* ------------------------------------------------------------------------

InFlightBounded ==
    Cardinality(provider.in_flight) <= provider.max_concurrent_launches

AllCreated == provider.created = Range(provider.shape)

Returned(c) == pc[c] = "done" /\ ctx[1]._node_type_configs = c

\* The nodes from_schedule_request makes of caller c's request: the existing
\* (PENDING or RUNNING) nodes.
ExistingNodes(c) ==
    InstanceNodes(request[c].instances, request[c].node_type_configs)

\* The count of the reply's launch request for a node type (0 without one).
LaunchCount(r, node_type) ==
    LET hits == {k \in DOMAIN r.to_launch : r.to_launch[k].instance_type = node_type}
    IN  IF hits = {} THEN 0 ELSE r.to_launch[CHOOSE k \in hits : TRUE].count

\* How often request r is among the requests committed to the nodes of the
\* context.
RECURSIVE Occurrences(_, _)
Occurrences(seq, r) ==
    IF seq = <<>> THEN 0
    ELSE (IF Head(seq) = r THEN 1 ELSE 0) + Occurrences(Tail(seq), r)

RECURSIVE PlacedCount(_, _)
PlacedCount(objects, r) ==
    IF objects = <<>> THEN 0
    ELSE Occurrences(Head(objects).sched_requests, r) + PlacedCount(Tail(objects), r)

\* C3: after schedule, every gang of the request is either placed whole, or
\* none of its requests is placed on any node and the gang is among the
\* reply's infeasible gang requests.
C3_GangAllOrNothing ==
    \A c \in Callers : Returned(c) =>
        \A g \in Range(request[c].gang_resource_requests) :
            \/ \A r \in Range(g) : PlacedCount(heap, r) > 0
            \/ /\ \A r \in Range(g) : PlacedCount(heap, r) = 0
               /\ g \in Range(reply[c][1].infeasible_gang_resource_requests)

\* C4: after schedule, for every configured type the existing (PENDING or
\* RUNNING) nodes of the type in the context plus the reply's launch count for
\* it are at most max_worker_nodes.
C4_CapacityConservation ==
    \A c \in Callers : Returned(c) =>
        \A cfg \in Range(request[c].node_type_configs) :
            Cardinality({k \in DOMAIN ctx[1]._nodes :
                    /\ heap[ctx[1]._nodes[k]].status \in {"PENDING", "RUNNING"}
                    /\ heap[ctx[1]._nodes[k]].node_type = cfg.name})
                + LaunchCount(reply[c][1], cfg.name) <= cfg.max_worker_nodes

\* C5: after phase 1 of schedule, the context holds at least min_worker_nodes
\* nodes (existing and TO_LAUNCH) of every configured type. Phase 1 never cuts
\* the count for the global max, so no exception is needed.
C5_MinWorkersEnforced ==
    \A c \in Callers : (pc[c] = "constraints" /\ ctx[1]._node_type_configs = c) =>
        \A cfg \in Range(request[c].node_type_configs) :
            CountOfType(Deref(ctx[1]._nodes, heap), cfg.name) >= cfg.min_worker_nodes

\* Phase 1 has run for a type that had one node less than two and got the
\* TO_LAUNCH nodes to make up for it, next to an existing node.
C5_Witness ==
    \E c \in Callers :
        /\ pc[c] = "constraints"
        /\ ctx[1]._node_type_configs = c
        /\ \E cfg \in Range(request[c].node_type_configs) :
            /\ CountOfType(ExistingNodes(c), cfg.name) + 2 <= cfg.min_worker_nodes
            /\ \E k \in DOMAIN heap :
                heap[k].status = "TO_LAUNCH" /\ heap[k].node_type = cfg.name
        /\ ExistingNodes(c) # <<>>

\* C6: after schedule, every resource request of the call is accounted for:
\* the times it is placed on a node plus its count among the reply's
\* infeasible requests make up the count demanded.
C6_DemandAccountedFor ==
    \A c \in Callers : Returned(c) =>
        \A d \in Range(request[c].resource_requests) :
            LET inf == reply[c][1].infeasible_resource_requests
                hits == {k \in DOMAIN inf : inf[k].request = d.request}
            IN  PlacedCount(heap, d.request)
                    + (IF hits = {} THEN 0 ELSE inf[CHOOSE k \in hits : TRUE].count)
                  = d.count

\* C7: two calls of schedule with equal requests return equal replies, launch
\* request ids and timestamps included.
C7_ScheduleDeterministic ==
    \A c, d \in Callers :
        (pc[c] = "done" /\ pc[d] = "done" /\ request[c] = request[d])
            => reply[c] = reply[d]

\* C8: schedule does not change the request it is given: from its entry on,
\* the request equals what it was at entry (configs, demand and instances
\* with their ray nodes' resources).
C8_RequestNotMutated ==
    \A c \in Callers : pc[c] # "idle" => local[c].request_at_entry = <<request[c]>>

\* schedule has returned for a request with a RUNNING node built from a ray
\* node's resources and TO_LAUNCH nodes built from a config.
C8_Witness ==
    \E c \in Callers :
        /\ Returned(c)
        /\ \E k \in DOMAIN heap : heap[k].status = "RUNNING"
        /\ \E k \in DOMAIN heap : heap[k].status = "TO_LAUNCH"
        /\ request[c].resource_requests # <<>>

\* The request asks for nothing to be placed.
NoDemand(r) ==
    /\ r.resource_requests = <<>>
    /\ r.gang_resource_requests = <<>>
    /\ r.cluster_resource_constraints = <<>>

LaunchRequestsOf(r, node_type) ==
    {k \in DOMAIN r.to_launch : r.to_launch[k].instance_type = node_type}

\* C12: with no demand, the reply of schedule has exactly one launch request
\* for each configured type whose node count is below min_worker_nodes, of
\* count min_worker_nodes minus the node count, no launch request for any
\* other type, and empty infeasible lists.
C12_NoDemandLaunchesMinimum ==
    \A c \in Callers : (pc[c] = "done" /\ NoDemand(request[c])) =>
        LET r == reply[c][1]
            below == {cfg \in Range(request[c].node_type_configs) :
                        CountOfType(ExistingNodes(c), cfg.name) < cfg.min_worker_nodes}
        IN  /\ \A cfg \in below :
                  /\ Cardinality(LaunchRequestsOf(r, cfg.name)) = 1
                  /\ LaunchCount(r, cfg.name) =
                        cfg.min_worker_nodes - CountOfType(ExistingNodes(c), cfg.name)
            /\ \A k \in DOMAIN r.to_launch :
                  r.to_launch[k].instance_type \in {cfg.name : cfg \in below}
            /\ r.infeasible_resource_requests = <<>>
            /\ r.infeasible_gang_resource_requests = <<>>
            /\ r.infeasible_cluster_resource_constraints = <<>>

\* schedule has returned for a request without demand and without instances
\* whose type m1 has min_worker_nodes 2; the reply launches two m1 nodes.
C12_Witness ==
    \E c \in Callers :
        /\ pc[c] = "done"
        /\ NoDemand(request[c])
        /\ request[c].instances = <<>>
        /\ \E cfg \in Range(request[c].node_type_configs) :
              cfg.name = "m1" /\ cfg.min_worker_nodes = 2
        /\ LaunchCount(reply[c][1], "m1") = 2

\* Every resource the request demands is covered by the available resources.
Fits(available, r) ==
    \A res \in DOMAIN r : res \in DOMAIN available /\ available[res] >= r[res]

Deduct(available, r) ==
    [res \in DOMAIN available |->
        IF res \in DOMAIN r THEN available[res] - r[res] ELSE available[res]]

\* The requests taken one by one in order: what is placed, what remains, and
\* the available resources left.
RECURSIVE InOrderPlacement(_, _)
InOrderPlacement(available, requests) ==
    IF requests = <<>>
    THEN [available |-> available, assigned |-> <<>>, remainder |-> <<>>]
    ELSE LET r == Head(requests)
         IN  IF Fits(available, r)
             THEN LET rest == InOrderPlacement(Deduct(available, r), Tail(requests))
                  IN  [rest EXCEPT !.assigned = <<r>> \o @]
             ELSE LET rest == InOrderPlacement(available, Tail(requests))
                  IN  [rest EXCEPT !.remainder = <<r>> \o @]

\* C13: try_schedule takes the requests in order; a request is placed exactly
\* when the node's available resources at that point cover it, placing it
\* deducts it from the available resources and appends it to the node's
\* sched_requests, and the requests that do not fit are returned as the
\* remainder.
C13_TryScheduleInOrder ==
    tried # <<>> =>
        LET t == tried[1]
            node == heap[t.node]
            want == InOrderPlacement(t.before.available_resources, t.requests)
        IN  /\ node.available_resources = want.available
            /\ node.sched_requests = t.before.sched_requests \o want.assigned
            /\ t.returned # <<>>
            /\ t.returned[1].remaining = want.remainder

\* The count schedule, running alone on request r, launches of a node type:
\* what the type's nodes lack of min_worker_nodes.
AloneLaunchCount(r, node_type) ==
    LET cfg == ConfigGet(r.node_type_configs, node_type)
        cur == CountOfType(InstanceNodes(r.instances, r.node_type_configs), node_type)
    IN  IF cfg # <<>> /\ cur < cfg[1].min_worker_nodes
        THEN cfg[1].min_worker_nodes - cur
        ELSE 0

\* C19: when two schedule calls on the scheduler object interleave, the reply
\* of each call launches what the call would launch running alone on its own
\* request.
C19_InterleavedCallsIsolated ==
    \A c \in Callers : pc[c] = "done" =>
        \A node_type \in DOMAIN NodeTypeResources :
            LaunchCount(reply[c][1], node_type)
                = AloneLaunchCount(request[c], node_type)

\* Caller c's schedule has set the context from its request and the context
\* is still the one of that call.
InCall(c) == pc[c] # "idle" /\ ctx[1]._node_type_configs = c

\* The instances of caller c's request whose type has no node type config.
WithoutConfig(c) ==
    {inst \in Range(request[c].instances) :
        /\ inst.im_instance # <<>>
        /\ ConfigGet(request[c].node_type_configs,
                     inst.im_instance[1].instance_type) = <<>>}

\* The nodes of the context that stand for the instance.
NodesOf(inst) ==
    {k \in DOMAIN ctx[1]._nodes :
        heap[ctx[1]._nodes[k]].im_instance_id = inst.im_instance[1].instance_id}

\* C20 as stated: an instance whose type has no node type config is left out
\* of the call's context, no node stands for it, and schedule does not raise.
C20_MissingConfigSkipped ==
    \A c \in Callers :
        /\ pc[c] # "raised"
        /\ InCall(c) => \A inst \in WithoutConfig(c) : NodesOf(inst) = {}

\* C20, amended: an instance without a ray node whose type has no node type
\* config is left out of the call's context, no node stands for it; an
\* instance with a ray node has a RUNNING node with the ray node's resources
\* also when its type has no config; and schedule does not raise.
C20_PendingMissingConfigSkipped ==
    \A c \in Callers :
        /\ pc[c] # "raised"
        /\ InCall(c) => \A inst \in WithoutConfig(c) :
              IF inst.ray_node = <<>>
              THEN NodesOf(inst) = {}
              ELSE \E k \in NodesOf(inst) :
                      /\ heap[ctx[1]._nodes[k]].status = "RUNNING"
                      /\ heap[ctx[1]._nodes[k]].total_resources
                            = inst.ray_node[1].total_resources

\* schedule has returned a reply for a request with an instance still being
\* launched whose type has no node type config, and a running instance whose
\* type has none either.
C20_Witness ==
    \E c \in Callers :
        /\ Returned(c)
        /\ reply[c] # <<>>
        /\ \E inst \in WithoutConfig(c) :
              /\ inst.ray_node = <<>>
              /\ is_ray_running_reachable(inst.im_instance[1].status)
        /\ \E inst \in WithoutConfig(c) : inst.ray_node # <<>>

\* The nodes of a type and status in the context.
CountOfStatus(node_objects, node_type, status) ==
    Cardinality({k \in DOMAIN node_objects :
        node_objects[k].node_type = node_type /\ node_objects[k].status = status})

\* C23 as stated: from the construction of the context on, the launch budget
\* of every configured type is max_worker_nodes minus the nodes of the type in
\* the context, the TO_LAUNCH nodes of the type are no more than the budget
\* the type had at construction, and the budget is not negative.
C23_BudgetNeverNegative ==
    \A c \in Callers : InCall(c) =>
        \A cfg \in Range(request[c].node_type_configs) :
            LET nodes == Deref(ctx[1]._nodes, heap)
                budget == ctx[1]._node_type_available[cfg.name]
                existing == CountOfType(ExistingNodes(c), cfg.name)
            IN  /\ budget = cfg.max_worker_nodes - CountOfType(nodes, cfg.name)
                /\ CountOfStatus(nodes, cfg.name, "TO_LAUNCH")
                      <= cfg.max_worker_nodes - existing
                /\ budget >= 0

\* C23, amended: the budget is max_worker_nodes minus the nodes of the type
\* in the context; for a type whose existing nodes do not exceed its
\* max_worker_nodes the TO_LAUNCH nodes stay within the budget the type had
\* at construction and the budget is not negative.
C23_BudgetBookkeeping ==
    \A c \in Callers : InCall(c) =>
        \A cfg \in Range(request[c].node_type_configs) :
            LET nodes == Deref(ctx[1]._nodes, heap)
                budget == ctx[1]._node_type_available[cfg.name]
                existing == CountOfType(ExistingNodes(c), cfg.name)
            IN  /\ budget = cfg.max_worker_nodes - CountOfType(nodes, cfg.name)
                /\ existing <= cfg.max_worker_nodes =>
                      /\ CountOfStatus(nodes, cfg.name, "TO_LAUNCH")
                            <= cfg.max_worker_nodes - existing
                      /\ budget >= 0

\* Phase 1 has added a TO_LAUNCH node next to an existing node of a type
\* with max_worker_nodes 2, which uses up the type's budget.
C23_Witness ==
    \E c \in Callers :
        /\ InCall(c)
        /\ pc[c] = "constraints"
        /\ \E cfg \in Range(request[c].node_type_configs) :
              /\ cfg.max_worker_nodes = 2
              /\ CountOfType(ExistingNodes(c), cfg.name) = 1
              /\ CountOfStatus(Deref(ctx[1]._nodes, heap), cfg.name, "TO_LAUNCH") = 1
              /\ ctx[1]._node_type_available[cfg.name] = 0

\* C24: changing what an accessor of the context returned changes neither
\* the nodes of the context, nor its launch budget, nor its node type
\* configs.
C24_AccessorsReturnCopies ==
    (got # <<>> /\ got[1].mutated) => got[1].after = got[1].before

\* C27: the TO_LAUNCH nodes phase 1 added for a type are nodes of their own:
\* a request committed to one of them in the list get_nodes returned leaves
\* the others as they were.
C27_LaunchNodesIndependent ==
    (got # <<>> /\ got[1].mutated /\ got[1].accessor = "get_nodes") =>
        LET k == got[1].element
        IN  \A j \in DOMAIN got[1].list_before :
                (/\ j # k
                 /\ got[1].list_before[k].status = "TO_LAUNCH"
                 /\ got[1].list_before[j].status = "TO_LAUNCH"
                 /\ got[1].list_before[j].node_type = got[1].list_before[k].node_type)
                    => got[1].list_after[j] = got[1].list_before[j]

\* C25: after schedule of a request whose only demand is resource requests, a
\* resource request that fits on an existing RUNNING node is committed to a
\* RUNNING node of the context, whose available resources are reduced by it,
\* and is not among the reply's infeasible requests.
C25_PlacedOnExistingNode ==
    \A c \in Callers :
        (/\ Returned(c)
         /\ request[c].gang_resource_requests = <<>>
         /\ request[c].cluster_resource_constraints = <<>>) =>
            \A rc \in Range(request[c].resource_requests) :
                (\E n \in Range(ExistingNodes(c)) :
                    n.status = "RUNNING" /\ Fits(n.available_resources, rc.request))
                => /\ \E k \in DOMAIN heap :
                        /\ heap[k].status = "RUNNING"
                        /\ Occurrences(heap[k].sched_requests, rc.request) > 0
                        /\ heap[k].available_resources
                              = Deduct(heap[k].total_resources, rc.request)
                   /\ reply[c][1].infeasible_resource_requests = <<>>

RECURSIVE SumOfMin(_)
SumOfMin(node_type_configs) ==
    IF node_type_configs = <<>> THEN 0
    ELSE Head(node_type_configs).min_worker_nodes + SumOfMin(Tail(node_type_configs))

RECURSIVE SumOfCounts(_)
SumOfCounts(to_launch) ==
    IF to_launch = <<>> THEN 0
    ELSE Head(to_launch).count + SumOfCounts(Tail(to_launch))

\* C26: the phases after phase 1 see the nodes phase 1 added: after schedule
\* of a request with one node type, no existing node and resource requests
\* as its only demand, a resource request that fits on a node of the type is
\* committed to a TO_LAUNCH node added for the type's minimum, and the launch
\* count of the type is min_worker_nodes.
C26_DemandUsesMinimumNodes ==
    \A c \in Callers :
        (/\ Returned(c)
         /\ Len(request[c].node_type_configs) = 1
         /\ ExistingNodes(c) = <<>>
         /\ request[c].gang_resource_requests = <<>>
         /\ request[c].cluster_resource_constraints = <<>>) =>
            LET cfg == request[c].node_type_configs[1]
            IN  \A rc \in Range(request[c].resource_requests) :
                    (cfg.min_worker_nodes >= 1 /\ Fits(cfg.resources, rc.request))
                    => /\ \E k \in DOMAIN heap :
                            /\ heap[k].status = "TO_LAUNCH"
                            /\ Occurrences(heap[k].sched_requests, rc.request) > 0
                       /\ LaunchCount(reply[c][1], cfg.name) = cfg.min_worker_nodes

\* C28: when the request sets max_num_worker_nodes, its existing nodes are no
\* more than that and the min_worker_nodes of its types sum to no more than
\* that, the existing nodes and the launch counts of the reply together are
\* no more than max_num_worker_nodes.
C28_GlobalCap ==
    \A c \in Callers :
        (/\ Returned(c)
         /\ request[c].max_num_worker_nodes # <<>>
         /\ Len(ExistingNodes(c)) <= request[c].max_num_worker_nodes[1]
         /\ SumOfMin(request[c].node_type_configs)
               <= request[c].max_num_worker_nodes[1]) =>
            Len(ExistingNodes(c)) + SumOfCounts(reply[c][1].to_launch)
                <= request[c].max_num_worker_nodes[1]

\* C29: the launch requests of one reply have different ids, and the launch
\* requests of two schedule calls have different ids, whatever the clock
\* returns.
C29_LaunchIdsUnique ==
    /\ \A c \in Callers : pc[c] = "done" =>
          \A j, k \in DOMAIN reply[c][1].to_launch :
              j # k => reply[c][1].to_launch[j].id # reply[c][1].to_launch[k].id
    /\ \A c, d \in Callers : (c # d /\ pc[c] = "done" /\ pc[d] = "done") =>
          \A j \in DOMAIN reply[c][1].to_launch, k \in DOMAIN reply[d][1].to_launch :
              reply[c][1].to_launch[j].id # reply[d][1].to_launch[k].id

\* The context is the one from_schedule_request has just made of caller c's
\* request, before any phase has run.
JustBuilt(c) == pc[c] = "min_workers" /\ ctx[1]._node_type_configs = c

\* The instances of a request that get a scheduling node: those with a ray
\* node, and those without one whose status can still reach RAY_RUNNING and
\* whose instance type is configured.
Contributes(inst, node_type_configs) ==
    \/ inst.ray_node # <<>>
    \/ /\ inst.im_instance # <<>>
       /\ is_ray_running_reachable(inst.im_instance[1].status)
       /\ ConfigGet(node_type_configs, inst.im_instance[1].instance_type) # <<>>

Contributing(r) ==
    LET Test(inst) == Contributes(inst, r.node_type_configs)
    IN  SelectSeq(r.instances, Test)

\* The node type of the node an instance gets.
NodeTypeOf(inst) ==
    IF inst.ray_node # <<>> THEN inst.ray_node[1].ray_node_type_name
    ELSE inst.im_instance[1].instance_type

\* C30: the context from_schedule_request builds has one node for each
\* instance with a ray node (RUNNING, with the ray node's total and available
\* resources) and for each instance without one whose status can still reach
\* RAY_RUNNING and whose type is configured (PENDING, with the type's
\* configured resources as total and available), in the order of the
\* request; every other instance has no node, and the launch budget of a type
\* is its max_worker_nodes minus only the instances that got a node.
C30_InstanceToNode ==
    \A c \in Callers : JustBuilt(c) =>
        LET r == request[c]
            from == Contributing(r)
            nodes == Deref(ctx[1]._nodes, heap)
        IN  /\ Len(nodes) = Len(from)
            /\ \A k \in DOMAIN from :
                  LET inst == from[k]
                      node == nodes[k]
                  IN  /\ node.node_type = NodeTypeOf(inst)
                      /\ node.sched_requests = <<>>
                      /\ IF inst.ray_node # <<>>
                         THEN /\ node.status = "RUNNING"
                              /\ node.total_resources = inst.ray_node[1].total_resources
                              /\ node.available_resources
                                    = inst.ray_node[1].available_resources
                         ELSE LET cfg == ConfigGet(r.node_type_configs,
                                             inst.im_instance[1].instance_type)[1]
                              IN  /\ node.status = "PENDING"
                                  /\ node.im_instance_id
                                        = inst.im_instance[1].instance_id
                                  /\ node.total_resources = cfg.resources
                                  /\ node.available_resources = cfg.resources
            /\ \A cfg \in Range(r.node_type_configs) :
                  ctx[1]._node_type_available[cfg.name]
                      = cfg.max_worker_nodes
                          - Cardinality({k \in DOMAIN from :
                                            NodeTypeOf(from[k]) = cfg.name})

\* from_schedule_request has built the context of a request with a terminated
\* instance and an instance still being launched, both of a configured type:
\* the context has the one PENDING node.
C30_Witness ==
    \E c \in Callers :
        /\ JustBuilt(c)
        /\ \E j, k \in DOMAIN request[c].instances :
              /\ request[c].instances[j].ray_node = <<>>
              /\ request[c].instances[j].im_instance[1].status = "TERMINATED"
              /\ request[c].instances[k].ray_node = <<>>
              /\ request[c].instances[k].im_instance[1].status = "REQUESTED"
              /\ ConfigGet(request[c].node_type_configs, "m1") # <<>>
        /\ Len(ctx[1]._nodes) = 1
        /\ heap[ctx[1]._nodes[1]].status = "PENDING"

====
